---- MODULE Spec2Model ----
(***************************************************************************)
(* Model of functions/index.js: the feedPushNotification trigger           *)
(* (onDocumentCreated 'feed/{feedId}', retry: true).                       *)
(*                                                                         *)
(* One feed event is modelled.  The platform delivers its creation         *)
(* occurrence one or more times; every delivery carries the same event id  *)
(* and the same creation-time snapshot of the feed document.  Each         *)
(* delivery is an invocation of the handler; an invocation advances one    *)
(* awaited I/O call at a time, so invocations interleave at the awaits.    *)
(***************************************************************************)
EXTENDS Integers, Sequences, FiniteSets, TLC

\* ---------------------------------------------------------------- bounds

\* Deliveries of the one creation occurrence the platform may make.
MaxDeliveries == 2

\* index.js:270 sets chunkSize = 500; the model scales the batch limit down
\* so that audiences of three or four tokens span several batches.
chunkSize == 2

\* Writes made to the one remote_territories document.
MaxEvents == 2

\* The batch limit as index.js:270 sets it.
MulticastLimit == 500

\* ------------------------------------------------------------- constants

EventId == "e1"

Users == {"u1", "u2", "u3"}

\* usersSnapshot.forEach visits the documents in document-id order.
UserOrder == <<"u1", "u2", "u3">>

\* A field that is missing or is not an array (Array.isArray is false).
NotArray == <<"<not-an-array>">>

IsArray(x) == x # NotArray

Absent == "absent"

NoCount == -1

NoReasons == <<>>

NotRegistered == "messaging/registration-token-not-registered"

InvalidRegistration == "messaging/invalid-registration-token"

ThirdPartyAuth == "messaging/third-party-auth-error"

\* Per-token results of sendEachForMulticast: success, or an error code
\* ("" stands for a failure whose error carries no code).
Results == {"ok", NotRegistered, InvalidRegistration, ThirdPartyAuth,
            "messaging/internal-error", ""}

\* Errors sendEachForMulticast may throw for a whole batch.
SendErrors == {[code |-> "messaging/server-unavailable", message |-> "unavailable"],
               [code |-> "", message |-> "socket hang up"],
               [code |-> "", message |-> ""]}

\* Messages of the errors a Firestore call may reject with.
IoErrors == {"deadline exceeded", ""}

Invocations == 1 .. MaxDeliveries

Range(s) == {s[k] : k \in DOMAIN s}

Min(a, b) == IF a < b THEN a ELSE b

\* ----------------------------------------------------------------- state

VARIABLES
  snapshot,    \* event.data: the feed document as it was created
  deliveries,  \* how many times the platform delivers the occurrence
  feed,        \* the persisted outcome fields of feed/{feedId}
  users,       \* the persisted users collection
  run,         \* per invocation: position and local variables of the handler
  reads,       \* per invocation: db.collection('users').get() calls made
  sent,        \* per invocation: sendEachForMulticast calls made, with their result
  writes,      \* per invocation: feedRef.set calls made, with their result
  updates,     \* per invocation: ref.update calls made, with their result
  territory,   \* the persisted remote_territories/{territoryId} document
  written,     \* the write events of that document: before and after snapshots
  tracker,     \* per write event and invocation: position of the history handler
  owners,      \* the persisted documents of the territory's owners subcollection
  sets         \* per write event: ownersCollection.doc(...).set calls made

vars == <<snapshot, deliveries, feed, users, run, reads, sent, writes, updates,
          territory, written, tracker, owners, sets>>

\* The state of remoteTerritoryOwnerHistory, which feedPushNotification
\* neither reads nor writes.
trackerVars == <<territory, written, tracker, owners, sets>>

\* The state of feedPushNotification, which remoteTerritoryOwnerHistory
\* neither reads nor writes.
feedVars == <<snapshot, deliveries, feed, users, run, reads, sent, writes, updates>>

\* ------------------------------------------------- pure parts of the handler

\* Array.prototype.filter(Boolean) on an array of strings.
FilterBoolean(s) == SelectSeq(s, LAMBDA t : t # "")

RECURSIVE Dedup(_, _)
Dedup(s, acc) ==
  IF s = <<>> THEN acc
  ELSE Dedup(Tail(s), IF Head(s) \in Range(acc) THEN acc ELSE Append(acc, Head(s)))

\* Array.from(new Set(s)): first occurrences, in order.
ArrayFromSet(s) == Dedup(s, <<>>)

\* index.js:160-164
FeedTokens(feedData) ==
  IF IsArray(feedData.tokens) THEN FilterBoolean(feedData.tokens)
  ELSE IF feedData.token # "" THEN <<feedData.token>>
  ELSE <<>>

\* Mutant: the gate never stops an invocation.
AlreadySentNever(feedData) == FALSE

\* index.js:167
AlreadySent(feedData) == feedData.pushSentAt # Absent

\* index.js:173
MissingIdentity(userId, feedTokens) == userId = "" /\ Len(feedTokens) = 0

\* Mutant: the directory is scanned whether or not there is an author.
HasAuthorAlways(userId) == TRUE

\* index.js:221
HasAuthor(userId) == userId # ""

\* Mutant: the author's record is not skipped.
IsAuthorNever(id, userId) == FALSE

\* index.js:226
IsAuthor(id, userId) == id = userId

\* index.js:229-240
UserTokens(data) ==
  LET fromFcmTokens == IF IsArray(data.fcmTokens) THEN data.fcmTokens ELSE <<>>
      fromFcmToken == IF data.fcmToken # "" THEN <<data.fcmToken>> ELSE <<>>
      fromTokens == IF IsArray(data.tokens) THEN data.tokens ELSE <<>>
  IN ArrayFromSet(FilterBoolean(fromFcmTokens \o fromFcmToken \o fromTokens))

\* The tokens a document field or a feed event can hold, "" excluded.
AllTokens == {"a", "b", "d", "e"}

NoOwners == [t \in AllTokens |-> {}]

\* index.js:244-250
Register(acc, id, userTokens) ==
  [tokens |-> acc.tokens \o userTokens,
   tokenOwners |-> [t \in AllTokens |->
                      IF t \in Range(userTokens) THEN acc.tokenOwners[t] \cup {id}
                      ELSE acc.tokenOwners[t]]]

RECURSIVE CollectFrom(_, _, _, _)
CollectFrom(k, userId, dir, acc) ==
  IF k > Len(UserOrder) THEN acc
  ELSE LET id == UserOrder[k]
           userTokens == UserTokens(dir[id])
       IN IF IsAuthor(id, userId) \/ Len(userTokens) = 0
          THEN CollectFrom(k + 1, userId, dir, acc)
          ELSE CollectFrom(k + 1, userId, dir, Register(acc, id, userTokens))

\* index.js:218-251: the candidate list and the token -> owners registry
CollectTokens(feedTokens, userId, dir) ==
  CollectFrom(1, userId, dir, [tokens |-> feedTokens, tokenOwners |-> NoOwners])

\* Mutant: the candidate list is filtered but not deduplicated.
UniqueTokensNoDedup(tokens) == FilterBoolean(tokens)

\* index.js:254
UniqueTokens(tokens) == ArrayFromSet(FilterBoolean(tokens))

\* Mutant: the empty-audience test never fires.
EmptyAudienceNever(uniqueTokens) == FALSE

\* index.js:256
EmptyAudience(uniqueTokens) == Len(uniqueTokens) = 0

\* Mutant: the slice takes one element more than the limit.
RECURSIVE ChunksOfOversize(_, _)
ChunksOfOversize(uniqueTokens, size) ==
  IF Len(uniqueTokens) = 0 THEN <<>>
  ELSE LET n == Min(size + 1, Len(uniqueTokens))
       IN <<SubSeq(uniqueTokens, 1, n)>>
            \o ChunksOfOversize(SubSeq(uniqueTokens, n + 1, Len(uniqueTokens)), size)

\* index.js:271-273: slices of `size` elements, in order
RECURSIVE ChunksOf(_, _)
ChunksOf(uniqueTokens, size) ==
  IF Len(uniqueTokens) = 0 THEN <<>>
  ELSE LET n == Min(size, Len(uniqueTokens))
       IN <<SubSeq(uniqueTokens, 1, n)>>
            \o ChunksOf(SubSeq(uniqueTokens, n + 1, Len(uniqueTokens)), size)

\* index.js:269-273
Chunks(uniqueTokens) == ChunksOf(uniqueTokens, chunkSize)

\* failureReasons is a JS object: its keys keep insertion order.
Bump(failureReasons, key, n) ==
  IF \E k \in DOMAIN failureReasons : failureReasons[k].code = key
  THEN [k \in DOMAIN failureReasons |->
          IF failureReasons[k].code = key
          THEN [code |-> key, n |-> failureReasons[k].n + n]
          ELSE failureReasons[k]]
  ELSE Append(failureReasons, [code |-> key, n |-> n])

\* index.js:310-314
IsInvalidCode(code) ==
  code \in {NotRegistered, InvalidRegistration, ThirdPartyAuth}

\* Mutant: every invalidating code marks the owners for refresh.
NeedsRefreshAnyInvalid(code) ==
  code \in {NotRegistered, InvalidRegistration, ThirdPartyAuth}

\* index.js:316
NeedsRefresh(code) == code = ThirdPartyAuth

\* index.js:307-323: one unsuccessful per-token response
Classify(r, token, code) ==
  LET key == IF code = "" THEN "unknown" ELSE code
      tallied == [r EXCEPT !.failureReasons = Bump(@, key, 1)]
  IN IF IsInvalidCode(code)
     THEN [tallied EXCEPT
             !.invalidTokens = @ \cup {token},
             !.refreshUsers = IF NeedsRefresh(code)
                              THEN @ \cup r.tokenOwners[token] ELSE @]
     ELSE tallied

RECURSIVE ForEachResponse(_, _, _, _)
ForEachResponse(r, tokenChunk, responses, idx) ==
  IF idx > Len(tokenChunk) THEN r
  ELSE ForEachResponse(
         IF responses[idx] = "ok" THEN r
         ELSE Classify(r, tokenChunk[idx], responses[idx]),
         tokenChunk, responses, idx + 1)

\* What the provider's SDK reports for a batch it answered.
SuccessCount(responses) == Cardinality({k \in DOMAIN responses : responses[k] = "ok"})

FailureCount(responses) == Cardinality({k \in DOMAIN responses : responses[k] # "ok"})

\* index.js:302-324: a batch the provider answered
OnResponse(r, tokenChunk, responses) ==
  ForEachResponse(
    [r EXCEPT !.totalSuccess = @ + SuccessCount(responses),
              !.totalFailure = @ + FailureCount(responses)],
    tokenChunk, responses, 1)

\* index.js:328
SendErrorCode(sendErr) ==
  IF sendErr.code # "" THEN sendErr.code
  ELSE IF sendErr.message # "" THEN sendErr.message
  ELSE "chunk_error"

\* Mutant: a throwing batch counts as one failure, not one per token.
OnSendErrorOnce(r, tokenChunk, sendErr) ==
  [r EXCEPT !.totalFailure = @ + 1,
            !.failureReasons = Bump(@, SendErrorCode(sendErr), Len(tokenChunk))]

\* Mutant: a throwing batch is tallied once in the histogram.
OnSendErrorTalliedOnce(r, tokenChunk, sendErr) ==
  [r EXCEPT !.totalFailure = @ + Len(tokenChunk),
            !.failureReasons = Bump(@, SendErrorCode(sendErr), 1)]

\* Mutant: the tokens of a throwing batch are scheduled for removal.
OnSendErrorInvalidates(r, tokenChunk, sendErr) ==
  [r EXCEPT !.totalFailure = @ + Len(tokenChunk),
            !.failureReasons = Bump(@, SendErrorCode(sendErr), Len(tokenChunk)),
            !.invalidTokens = @ \cup Range(tokenChunk)]

\* index.js:325-330: a batch whose delivery call threw
OnSendError(r, tokenChunk, sendErr) ==
  [r EXCEPT !.totalFailure = @ + Len(tokenChunk),
            !.failureReasons = Bump(@, SendErrorCode(sendErr), Len(tokenChunk))]

\* Mutant: every invalid token is removed from every recipient record.
RemovalsEveryone(r) == [ref \in Users |-> r.invalidTokens]

\* index.js:334-345: owner -> invalid tokens it registered
Removals(r) ==
  [ref \in Users |-> {t \in r.invalidTokens : ref \in r.tokenOwners[t]}]

RemovalRefs(r) == {ref \in Users : Removals(r)[ref] # {}}

\* FieldValue.arrayRemove: on a field that is no array it leaves [].
ArrayRemove(field, toks) ==
  IF IsArray(field) THEN SelectSeq(field, LAMBDA t : t \notin toks) ELSE <<>>

\* Mutant: the pruning update rewrites the record, dropping fcmToken.
PruneOverwrite(data, toks) ==
  [data EXCEPT !.fcmTokens = ArrayRemove(@, toks), !.tokens = ArrayRemove(@, toks),
               !.fcmToken = ""]

\* index.js:349-352
Prune(data, toks) ==
  [data EXCEPT !.fcmTokens = ArrayRemove(@, toks), !.tokens = ArrayRemove(@, toks)]

\* index.js:362-365
MarkRefresh(data) ==
  [data EXCEPT !.needsTokenRefresh = TRUE, !.needsTokenRefreshAt = "ts"]

\* ------------------------------------------------ writes to the feed record

\* The histogram as Firestore stores it: a map, keys unordered.
AsMap(failureReasons) ==
  [c \in {failureReasons[k].code : k \in DOMAIN failureReasons} |->
     failureReasons[CHOOSE k \in DOMAIN failureReasons : failureReasons[k].code = c].n]

\* Mutant: the skip write also stamps pushSentAt.
MissingIdentityWriteStamped(eventId) ==
  [pushStatus |-> "skipped", pushError |-> "missing userId and tokens",
   pushEventId |-> eventId, pushSentAt |-> "ts"]

\* index.js:175-182
MissingIdentityWrite(eventId) ==
  [pushStatus |-> "skipped", pushError |-> "missing userId and tokens",
   pushEventId |-> eventId]

\* index.js:258-265
NoAudienceWrite(eventId) ==
  [pushStatus |-> "skipped", pushError |-> "no audience tokens",
   pushEventId |-> eventId]

\* Mutant: the status test is >= 0 instead of > 0.
TerminalStatusNonNegative(totalSuccess) == IF totalSuccess >= 0 THEN "sent" ELSE "failed"

\* index.js:374
TerminalStatus(totalSuccess) == IF totalSuccess > 0 THEN "sent" ELSE "failed"

\* index.js:372-384; FieldValue.delete() leaves the field absent
OutcomeWrite(r, eventId) ==
  [pushStatus |-> TerminalStatus(r.totalSuccess),
   pushSentAt |-> "ts",
   pushEventId |-> eventId,
   pushSuccessCount |-> r.totalSuccess,
   pushFailureCount |-> r.totalFailure,
   pushAudienceTokens |-> Len(r.uniqueTokens),
   pushFailureReasons |-> IF Len(r.failureReasons) > 0
                          THEN AsMap(r.failureReasons) ELSE NoReasons,
   pushError |-> IF r.totalSuccess > 0 THEN Absent
                 ELSE IF Len(r.failureReasons) > 0 THEN r.failureReasons[1].code
                 ELSE "all failed"]

\* index.js:398-405
ErrorWrite(message, eventId) ==
  [pushStatus |-> "failed",
   pushError |-> IF message # "" THEN message ELSE "unknown error",
   pushEventId |-> eventId]

\* feedRef.set(fields, { merge: true })
Merge(doc, fields) ==
  [f \in DOMAIN doc |-> IF f \in DOMAIN fields THEN fields[f] ELSE doc[f]]

\* ------------------------------------------------------------------ inputs

\* feedData.tokens as the creator of the feed document may have written it.
FeedTokensInputs == {NotArray, <<>>, <<"">>, <<"a", "d", "a">>}

\* The creation-time snapshots: event.data missing, or the document's fields.
FeedInputs ==
  {[exists |-> FALSE, userId |-> "", tokens |-> NotArray, token |-> "",
    pushSentAt |-> Absent]}
  \cup [exists : {TRUE}, userId : {"", "u1"}, tokens : FeedTokensInputs,
        token : {"", "d"}, pushSentAt : {Absent, "ts"}]

NoTokensUser ==
  [fcmTokens |-> NotArray, fcmToken |-> "", tokens |-> NotArray,
   needsTokenRefresh |-> FALSE, needsTokenRefreshAt |-> Absent]

\* Recipient records: the three legacy token shapes, with repeats and blanks.
UserInputs ==
  {NoTokensUser,
   [NoTokensUser EXCEPT !.fcmTokens = <<"a", "b">>, !.fcmToken = "a", !.tokens = <<"a">>],
   [NoTokensUser EXCEPT !.fcmTokens = <<"">>, !.fcmToken = "b", !.tokens = <<"b", "b">>]}

\* The author's own record.
AuthorInputs ==
  {NoTokensUser,
   [NoTokensUser EXCEPT !.fcmTokens = <<"a">>, !.fcmToken = "e"]}

DirectoryInputs == {dir \in [Users -> UserInputs \cup AuthorInputs] :
                      /\ dir["u1"] \in AuthorInputs
                      /\ dir["u2"] \in UserInputs
                      /\ dir["u3"] \in UserInputs}

NoFeedOutcome ==
  [pushStatus |-> Absent, pushSentAt |-> Absent, pushEventId |-> Absent,
   pushSuccessCount |-> NoCount, pushFailureCount |-> NoCount,
   pushAudienceTokens |-> NoCount, pushFailureReasons |-> NoReasons,
   pushError |-> Absent]

\* JS null, as the history entry stores it.
Null == "null"

\* A remote_territories snapshot that does not exist: data() is undefined.
NoTerritory ==
  [exists |-> FALSE, userId |-> Absent, activityId |-> Absent,
   expiresAt |-> Absent, activityEndAt |-> Absent, timestamp |-> Absent]

\* The territory document as its writers may leave it: userId missing, empty
\* or one of two owners, activityId missing or set.
TerritoryInputs ==
  {NoTerritory}
  \cup [exists : {TRUE}, userId : {Absent, "", "u1", "u2"}, activityId : {Absent, "a1"},
        expiresAt : {Absent}, activityEndAt : {Absent}, timestamp : {"t"}]

\* The write events of the territory document, in the order of the writes;
\* event.id of a write is its place in that order.
WriteEvents == 1 .. MaxEvents

\* usersSnapshot is <<>> until the directory scan has answered.
Idle ==
  [pc |-> "idle", usersSnapshot |-> <<>>,
   tokenOwners |-> NoOwners, uniqueTokens |-> <<>>, next |-> 0,
   totalSuccess |-> 0, totalFailure |-> 0, invalidTokens |-> {},
   failureReasons |-> <<>>, refreshUsers |-> {}, pending |-> {}, err |-> ""]

InitWith(n, feedInputs, directoryInputs) ==
  /\ snapshot \in feedInputs
  /\ deliveries = n
  /\ users \in directoryInputs
  /\ feed = [NoFeedOutcome EXCEPT !.pushSentAt = snapshot.pushSentAt]
  /\ run = [i \in Invocations |-> Idle]
  /\ reads = [i \in Invocations |-> 0]
  /\ sent = [i \in Invocations |-> <<>>]
  /\ writes = [i \in Invocations |-> <<>>]
  /\ updates = [i \in Invocations |-> {}]
  /\ territory = NoTerritory
  /\ written = <<>>
  /\ tracker = [e \in WriteEvents |-> [i \in Invocations |-> "idle"]]
  /\ owners = {}
  /\ sets = [e \in WriteEvents |-> 0]

\* One delivery of the creation occurrence.
Init == InitWith(1, FeedInputs, DirectoryInputs)

\* ----------------------------------------------------------------- actions

NoError == [code |-> "", message |-> ""]

Answered(tokenChunk, responses) ==
  [tokens |-> tokenChunk, threw |-> FALSE, responses |-> responses, error |-> NoError]

Threw(tokenChunk, sendErr) ==
  [tokens |-> tokenChunk, threw |-> TRUE, responses |-> <<>>, error |-> sendErr]

\* index.js:396-397: the outer catch, up to its await
Caught(r, message) == [r EXCEPT !.pc = "catch", !.err = message]

\* Mutant: a rejected cleanup update rejects the Promise.all awaiting it.
UpdateFailedRejects(r, settled) == Caught(r, "update failed")

\* index.js:352-354 and 365-367: a rejected cleanup update is logged by its
\* own .catch and counts as settled
UpdateFailed(r, settled) == settled

\* index.js:359 and 372: after the pruning updates settled
AfterPrune(r) ==
  IF r.refreshUsers # {}
  THEN [r EXCEPT !.pc = "refresh", !.pending = r.refreshUsers]
  ELSE [r EXCEPT !.pc = "outcomeWrite"]

\* index.js:333-347: after the last batch
AfterDispatch(r) ==
  IF r.invalidTokens # {} /\ RemovalRefs(r) # {}
  THEN [r EXCEPT !.pc = "prune", !.pending = RemovalRefs(r)]
  ELSE AfterPrune(r)

\* Mutant: the empty-audience branch does not return after its write.
EmptyReturnFallsThrough(r) == AfterDispatch(r)

\* index.js:266: return null after the empty-audience write
EmptyReturn(r) == [r EXCEPT !.pc = "done"]

\* index.js:254-281: what follows audience resolution, up to the next await
\* (a loop over no batches falls through to the cleanup)
Resolved(r, collected) ==
  LET uniqueTokens == UniqueTokens(collected.tokens)
      resolved == [r EXCEPT !.tokenOwners = collected.tokenOwners,
                            !.uniqueTokens = uniqueTokens,
                            !.next = 1]
  IN IF EmptyAudience(uniqueTokens) THEN [resolved EXCEPT !.pc = "emptyWrite"]
     ELSE IF Len(Chunks(uniqueTokens)) = 0 THEN AfterDispatch(resolved)
     ELSE [resolved EXCEPT !.pc = "send"]

\* index.js:149-184 and 218-254: a delivery starts the handler, which runs to
\* its first await.
Start(i) ==
  /\ i <= deliveries
  /\ run[i].pc = "idle"
  /\ LET feedData == snapshot
         userId == feedData.userId
         feedTokens == FeedTokens(feedData)
     IN run' = [run EXCEPT ![i] =
          IF ~snapshot.exists THEN [@ EXCEPT !.pc = "done"]
          ELSE IF AlreadySent(feedData) THEN [@ EXCEPT !.pc = "done"]
          ELSE IF MissingIdentity(userId, feedTokens) THEN [@ EXCEPT !.pc = "skipWrite"]
          ELSE IF HasAuthor(userId) THEN [@ EXCEPT !.pc = "get"]
          ELSE Resolved(@, [tokens |-> feedTokens, tokenOwners |-> NoOwners])]
  /\ UNCHANGED <<snapshot, deliveries, feed, users, reads, sent, writes, updates>>
  /\ UNCHANGED trackerVars

\* index.js:175-183: the missing-identity write, outside the try block
SkipWrite(i) ==
  /\ run[i].pc = "skipWrite"
  /\ LET w == MissingIdentityWrite(EventId)
     IN \/ /\ feed' = Merge(feed, w)
           /\ writes' = [writes EXCEPT ![i] = Append(@, [w |-> w, ok |-> TRUE])]
           /\ run' = [run EXCEPT ![i].pc = "done"]
        \/ \E e \in IoErrors :
           /\ writes' = [writes EXCEPT ![i] = Append(@, [w |-> w, ok |-> FALSE])]
           /\ run' = [run EXCEPT ![i].pc = "raised", ![i].err = e]
           /\ UNCHANGED feed
  /\ UNCHANGED <<snapshot, deliveries, users, reads, sent, updates>>
  /\ UNCHANGED trackerVars

\* index.js:222-254: the directory scan
ReadDirectory(i) ==
  /\ run[i].pc = "get"
  /\ reads' = [reads EXCEPT ![i] = @ + 1]
  /\ \/ run' = [run EXCEPT ![i] =
                  Resolved([@ EXCEPT !.usersSnapshot = users],
                           CollectTokens(FeedTokens(snapshot), snapshot.userId, users))]
     \/ \E e \in IoErrors : run' = [run EXCEPT ![i] = Caught(@, e)]
  /\ UNCHANGED <<snapshot, deliveries, feed, users, sent, writes, updates>>
  /\ UNCHANGED trackerVars

\* index.js:256-267: the empty-audience write
EmptyWrite(i) ==
  /\ run[i].pc = "emptyWrite"
  /\ LET w == NoAudienceWrite(EventId)
     IN \/ /\ feed' = Merge(feed, w)
           /\ writes' = [writes EXCEPT ![i] = Append(@, [w |-> w, ok |-> TRUE])]
           /\ run' = [run EXCEPT ![i] = EmptyReturn(@)]
        \/ \E e \in IoErrors :
           /\ writes' = [writes EXCEPT ![i] = Append(@, [w |-> w, ok |-> FALSE])]
           /\ run' = [run EXCEPT ![i] = Caught(@, e)]
           /\ UNCHANGED feed
  /\ UNCHANGED <<snapshot, deliveries, users, reads, sent, updates>>
  /\ UNCHANGED trackerVars

\* index.js:281-331: one iteration of the batch loop
SendChunk(i) ==
  /\ run[i].pc = "send"
  /\ LET chunks == Chunks(run[i].uniqueTokens)
         tokenChunk == chunks[run[i].next]
         Continue(r) == IF r.next = Len(chunks) THEN AfterDispatch(r)
                        ELSE [r EXCEPT !.next = @ + 1]
     IN \/ \E responses \in [1 .. Len(tokenChunk) -> Results] :
             /\ sent' = [sent EXCEPT ![i] = Append(@, Answered(tokenChunk, responses))]
             /\ run' = [run EXCEPT ![i] = Continue(OnResponse(@, tokenChunk, responses))]
        \/ \E sendErr \in SendErrors :
             /\ sent' = [sent EXCEPT ![i] = Append(@, Threw(tokenChunk, sendErr))]
             /\ run' = [run EXCEPT ![i] = Continue(OnSendError(@, tokenChunk, sendErr))]
  /\ UNCHANGED <<snapshot, deliveries, feed, users, reads, writes, updates>>
  /\ UNCHANGED trackerVars

\* index.js:347-356: one of the parallel pruning updates settles
PruneUpdate(i) ==
  /\ run[i].pc = "prune"
  /\ \E ref \in run[i].pending :
       LET toks == Removals(run[i])[ref]
           Settle(r) == IF r.pending = {ref} THEN AfterPrune([r EXCEPT !.pending = {}])
                        ELSE [r EXCEPT !.pending = @ \ {ref}]
       IN \/ /\ users' = [users EXCEPT ![ref] = Prune(@, toks)]
             /\ updates' = [updates EXCEPT ![i] = @ \cup
                  {[ref |-> ref, kind |-> "prune", toks |-> toks, ok |-> TRUE]}]
             /\ run' = [run EXCEPT ![i] = Settle(@)]
          \/ /\ updates' = [updates EXCEPT ![i] = @ \cup
                  {[ref |-> ref, kind |-> "prune", toks |-> toks, ok |-> FALSE]}]
             /\ run' = [run EXCEPT ![i] = UpdateFailed(@, Settle(@))]
             /\ UNCHANGED users
  /\ UNCHANGED <<snapshot, deliveries, feed, reads, sent, writes>>
  /\ UNCHANGED trackerVars

\* index.js:359-370: one of the parallel refresh-marking updates settles
RefreshUpdate(i) ==
  /\ run[i].pc = "refresh"
  /\ \E ref \in run[i].pending :
       LET Settle(r) == IF r.pending = {ref}
                        THEN [r EXCEPT !.pending = {}, !.pc = "outcomeWrite"]
                        ELSE [r EXCEPT !.pending = @ \ {ref}]
       IN \/ /\ users' = [users EXCEPT ![ref] = MarkRefresh(@)]
             /\ updates' = [updates EXCEPT ![i] = @ \cup
                  {[ref |-> ref, kind |-> "refresh", toks |-> {}, ok |-> TRUE]}]
             /\ run' = [run EXCEPT ![i] = Settle(@)]
          \/ /\ updates' = [updates EXCEPT ![i] = @ \cup
                  {[ref |-> ref, kind |-> "refresh", toks |-> {}, ok |-> FALSE]}]
             /\ run' = [run EXCEPT ![i] = UpdateFailed(@, Settle(@))]
             /\ UNCHANGED users
  /\ UNCHANGED <<snapshot, deliveries, feed, reads, sent, writes>>
  /\ UNCHANGED trackerVars

\* index.js:372-395: the outcome write
WriteOutcome(i) ==
  /\ run[i].pc = "outcomeWrite"
  /\ LET w == OutcomeWrite(run[i], EventId)
     IN \/ /\ feed' = Merge(feed, w)
           /\ writes' = [writes EXCEPT ![i] = Append(@, [w |-> w, ok |-> TRUE])]
           /\ run' = [run EXCEPT ![i].pc = "done"]
        \/ \E e \in IoErrors :
           /\ writes' = [writes EXCEPT ![i] = Append(@, [w |-> w, ok |-> FALSE])]
           /\ run' = [run EXCEPT ![i] = Caught(@, e)]
           /\ UNCHANGED feed
  /\ UNCHANGED <<snapshot, deliveries, users, reads, sent, updates>>
  /\ UNCHANGED trackerVars

\* index.js:396-407: the best-effort write of the outer catch
WriteError(i) ==
  /\ run[i].pc = "catch"
  /\ LET w == ErrorWrite(run[i].err, EventId)
     IN \/ /\ feed' = Merge(feed, w)
           /\ writes' = [writes EXCEPT ![i] = Append(@, [w |-> w, ok |-> TRUE])]
        \/ /\ writes' = [writes EXCEPT ![i] = Append(@, [w |-> w, ok |-> FALSE])]
           /\ UNCHANGED feed
  /\ run' = [run EXCEPT ![i].pc = "done"]
  /\ UNCHANGED <<snapshot, deliveries, users, reads, sent, updates>>
  /\ UNCHANGED trackerVars

Next ==
  \E i \in Invocations :
    \/ Start(i)
    \/ SkipWrite(i)
    \/ ReadDirectory(i)
    \/ EmptyWrite(i)
    \/ SendChunk(i)
    \/ PruneUpdate(i)
    \/ RefreshUpdate(i)
    \/ WriteOutcome(i)
    \/ WriteError(i)

Spec == Init /\ [][Next]_vars

\* Redeliveries: the occurrence is delivered up to MaxDeliveries times, the
\* invocations overlapping or not.  The audience is kept to two tokens.
RetryFeedInputs == {f \in FeedInputs : f.tokens \in {NotArray, <<>>}}

RetryDirectoryInputs ==
  {dir \in DirectoryInputs : dir["u2"].fcmToken # "a" /\ dir["u3"] = NoTokensUser}

InitRetry == InitWith(MaxDeliveries, RetryFeedInputs, RetryDirectoryInputs)

SpecRetry == InitRetry /\ [][Next]_vars

\* Recipient records of the legacy shape: the single fcmToken string and no
\* token array (index.js:233-235), next to records that hold arrays.
LegacyUser == [NoTokensUser EXCEPT !.fcmToken = "b"]

LegacyDirectoryInputs ==
  {dir \in [Users -> UserInputs \cup AuthorInputs \cup {LegacyUser}] :
     /\ dir["u1"] \in AuthorInputs
     /\ dir["u2"] \in {NoTokensUser, LegacyUser}
     /\ dir["u3"] \in {u \in UserInputs : u.fcmToken # "b"}}

InitLegacy == InitWith(1, RetryFeedInputs, LegacyDirectoryInputs)

\* One delivery, over a directory that mixes legacy and array records.
SpecLegacy == InitLegacy /\ [][Next]_vars

\* ------------------------------------------- remoteTerritoryOwnerHistory

\* index.js:79
TerritoryId == "t1"

\* x || null
OrNull(x) == IF x \in {Absent, ""} THEN Null ELSE x

\* Mutant: deletes are not skipped.
DeletedNever(afterSnapshot) == FALSE

\* index.js:85
Deleted(afterSnapshot) == ~afterSnapshot.exists

\* index.js:92
PreviousUserId(beforeSnapshot) ==
  IF beforeSnapshot.exists THEN OrNull(beforeSnapshot.userId) ELSE Null

\* index.js:93
NewUserId(afterSnapshot) == OrNull(afterSnapshot.userId)

\* index.js:94
PreviousActivityId(beforeSnapshot) ==
  IF beforeSnapshot.exists THEN OrNull(beforeSnapshot.activityId) ELSE Null

\* index.js:95
NewActivityId(afterSnapshot) == OrNull(afterSnapshot.activityId)

\* index.js:96
IsCreate(beforeSnapshot) == ~beforeSnapshot.exists

\* index.js:97
OwnerChanged(beforeSnapshot, afterSnapshot) ==
  IF IsCreate(beforeSnapshot) THEN NewUserId(afterSnapshot) # Null
  ELSE PreviousUserId(beforeSnapshot) # NewUserId(afterSnapshot)

\* index.js:98
ActivityChanged(beforeSnapshot, afterSnapshot) ==
  IF IsCreate(beforeSnapshot) THEN NewActivityId(afterSnapshot) # Null
  ELSE PreviousActivityId(beforeSnapshot) # NewActivityId(afterSnapshot)

\* index.js:107
HistoryDocId(eventId) == eventId

\* index.js:109-120: the fields of the history entry
HistoryEntry(eventId, beforeSnapshot, afterSnapshot, changedAt) ==
  [eventId |-> eventId,
   territoryId |-> TerritoryId,
   previousUserId |-> PreviousUserId(beforeSnapshot),
   newUserId |-> NewUserId(afterSnapshot),
   previousActivityId |-> PreviousActivityId(beforeSnapshot),
   newActivityId |-> NewActivityId(afterSnapshot),
   changedAt |-> changedAt,
   expiresAt |-> OrNull(afterSnapshot.expiresAt),
   activityEndAt |-> IF OrNull(afterSnapshot.activityEndAt) # Null
                     THEN afterSnapshot.activityEndAt
                     ELSE OrNull(afterSnapshot.timestamp),
   changeType |-> IF IsCreate(beforeSnapshot) THEN "create" ELSE "update"]

\* ownersCollection.doc(id).set(fields): the document of that id is replaced.
DocSet(collection, id, fields) ==
  {d \in collection : d.id # id} \cup {[id |-> id, fields |-> fields]}

\* index.js:85-103: the handler returns without writing
Unchanged(beforeSnapshot, afterSnapshot) ==
  \/ Deleted(afterSnapshot)
  \/ /\ ~OwnerChanged(beforeSnapshot, afterSnapshot)
     /\ ~ActivityChanged(beforeSnapshot, afterSnapshot)

\* A writer creates, updates or deletes the territory document; a write that
\* changes nothing raises no event.
WriteTerritory ==
  /\ Len(written) < MaxEvents
  /\ \E afterData \in TerritoryInputs :
       /\ afterData # territory
       /\ territory' = afterData
       /\ written' = Append(written, [before |-> territory, after |-> afterData])
  /\ UNCHANGED <<tracker, owners, sets>>
  /\ UNCHANGED feedVars

\* index.js:76-124: one delivery of write event e runs the handler, which
\* reads the event alone and has one await: the set of the history entry,
\* applied, or rejecting and the handler with it.  Deliveries of one event
\* are numbered in the order they are made.
OnDocumentWritten(e, i) ==
  /\ e \in DOMAIN written
  /\ tracker[e][i] = "idle"
  /\ i > 1 => tracker[e][i - 1] # "idle"
  /\ LET eventId == e
         beforeSnapshot == written[e].before
         afterSnapshot == written[e].after
     IN IF Unchanged(beforeSnapshot, afterSnapshot)
        THEN /\ tracker' = [tracker EXCEPT ![e][i] = "done"]
             /\ UNCHANGED <<owners, sets>>
        ELSE /\ sets' = [sets EXCEPT ![e] = @ + 1]
             /\ \/ /\ owners' = DocSet(owners, HistoryDocId(eventId),
                          HistoryEntry(eventId, beforeSnapshot, afterSnapshot, "ts"))
                   /\ tracker' = [tracker EXCEPT ![e][i] = "done"]
                \/ /\ tracker' = [tracker EXCEPT ![e][i] = "raised"]
                   /\ UNCHANGED owners
  /\ UNCHANGED <<territory, written>>
  /\ UNCHANGED feedVars

NextHistory ==
  \/ WriteTerritory
  \/ \E e \in WriteEvents : \E i \in Invocations : OnDocumentWritten(e, i)

\* No feed event is delivered; the territory document does not exist yet.
InitHistory ==
  InitWith(0, {f \in FeedInputs : ~f.exists},
           {dir \in DirectoryInputs : \A u \in Users : dir[u] = NoTokensUser})

SpecHistory == InitHistory /\ [][NextHistory]_vars

\* ------------------------------------------------------------ observations

Finished(i) == run[i].pc \in {"done", "raised"}

\* The invocation's feedData has pushSentAt set.
SentAtSet == snapshot.exists /\ snapshot.pushSentAt # Absent

\* The feed document names no author and carries no explicit token.
NoIdentity ==
  /\ snapshot.userId = ""
  /\ snapshot.token = ""
  /\ IsArray(snapshot.tokens) => \A k \in DOMAIN snapshot.tokens : snapshot.tokens[k] = ""

OkWrites(i) == {k \in DOMAIN writes[i] : writes[i][k].ok}

\* The feedRef.set calls of invocation i that carry pushSentAt.
OutcomeWrites(i) == {k \in DOMAIN writes[i] : "pushSentAt" \in DOMAIN writes[i][k].w}

\* Per-token results the provider gave invocation i, as (batch, index) pairs.
Delivered(i) ==
  {p \in (DOMAIN sent[i]) \X (1 .. Len(run[i].uniqueTokens)) :
     ~sent[i][p[1]].threw /\ p[2] \in DOMAIN sent[i][p[1]].responses}

Succeeded(i) == {p \in Delivered(i) : sent[i][p[1]].responses[p[2]] = "ok"}

\* Tokens of the batches whose delivery call threw, as (batch, index) pairs.
Lost(i) ==
  {p \in (DOMAIN sent[i]) \X (1 .. Len(run[i].uniqueTokens)) :
     sent[i][p[1]].threw /\ p[2] \in DOMAIN sent[i][p[1]].tokens}

\* Every token submitted by invocation i, as (batch, index) pairs.
Submitted(i) ==
  {p \in (DOMAIN sent[i]) \X (1 .. Len(run[i].uniqueTokens)) :
     p[2] \in DOMAIN sent[i][p[1]].tokens}

\* ------------------------------------------------------------------ claims

\* C1: each feed record is notified at most once under redeliveries: at most
\* one invocation for the event issues delivery calls.
C1_AtMostOnce ==
  Cardinality({i \in Invocations : sent[i] # <<>>}) <= 1

\* C2: an invocation whose feedData has pushSentAt set performs no directory
\* read, no delivery call and no write to the feed record or to a recipient
\* record, whatever the other fields are.
C2_IdempotencyGate ==
  SentAtSet =>
    \A i \in Invocations :
      /\ reads[i] = 0
      /\ sent[i] = <<>>
      /\ writes[i] = <<>>
      /\ updates[i] = {}
      /\ run[i].pc \in {"idle", "done"}

C2_Witness ==
  /\ SentAtSet
  /\ NoIdentity
  /\ \E i \in Invocations : run[i].pc = "done"

\* C3: once an attempt's outcome write (carrying pushSentAt) has landed on the
\* feed record, an attempt that starts later is a no-op: it finishes at once,
\* with no read, delivery call or write.
C3_LaterAttemptNoOp ==
  [][\A j \in Invocations :
       (/\ run[j].pc = "idle"
        /\ run'[j].pc # "idle"
        /\ \E i \in Invocations \ {j} : \E k \in OutcomeWrites(i) : writes[i][k].ok)
       => run'[j].pc = "done"]_vars

\* C4 as stated: every invocation that had event data and was not stopped by
\* the idempotency gate has, once it returned, made exactly one successful
\* write to the feed record; a gated one made none.
C4_ExactlyOneWrite ==
  \A i \in Invocations :
    (snapshot.exists /\ run[i].pc = "done") =>
      IF SentAtSet THEN writes[i] = <<>>
      ELSE Cardinality(OkWrites(i)) = 1

\* C4 amended: an invocation never makes two successful writes to the feed
\* record and stops writing after a successful one; a finished invocation that
\* had event data and was not gated has called feedRef.set once or twice, so
\* it made exactly one successful write unless its last call failed; a gated
\* invocation, or one without event data, makes no write.
C4_AtMostOneWrite ==
  \A i \in Invocations :
    /\ \A k \in OkWrites(i) : k = Len(writes[i])
    /\ Len(writes[i]) <= 2
    /\ (~snapshot.exists \/ SentAtSet) => writes[i] = <<>>
    /\ (snapshot.exists /\ ~SentAtSet /\ Finished(i)) => Len(writes[i]) >= 1

C4_Witness ==
  \E i \in Invocations :
    /\ Finished(i)
    /\ Len(writes[i]) = 2
    /\ ~writes[i][1].ok
    /\ writes[i][2].ok
    /\ sent[i] # <<>>

\* C5: no failure of an I/O step is raised to the platform: the invocation
\* completes normally.
C5_NeverRaises ==
  \A i \in Invocations : run[i].pc # "raised"

\* C6: with no userId, no explicit tokens and pushSentAt not set, the
\* invocation makes exactly one write, {pushStatus: skipped, pushError:
\* "missing userId and tokens", pushEventId}, without pushSentAt, and makes
\* no directory read, delivery call or recipient update.
C6_MissingIdentityGate ==
  (snapshot.exists /\ ~SentAtSet /\ NoIdentity) =>
    \A i \in Invocations :
      /\ reads[i] = 0
      /\ sent[i] = <<>>
      /\ updates[i] = {}
      /\ Len(writes[i]) <= 1
      /\ \A k \in DOMAIN writes[i] :
           writes[i][k].w = [pushStatus |-> "skipped",
                             pushError |-> "missing userId and tokens",
                             pushEventId |-> EventId]
      /\ Finished(i) => Len(writes[i]) = 1
      /\ feed.pushSentAt = Absent

C6_Witness ==
  /\ snapshot.exists /\ ~SentAtSet /\ NoIdentity
  /\ \E i \in Invocations : run[i].pc = "done" /\ feed.pushStatus = "skipped"

\* C7: when the deduplicated token set is empty after audience resolution,
\* the first write is {pushStatus: skipped, pushError: "no audience tokens",
\* pushEventId}, the invocation stops once it succeeded, and no delivery call
\* and no recipient update is made.
C7_EmptyAudienceGate ==
  \A i \in Invocations :
    (run[i].next >= 1 /\ run[i].uniqueTokens = <<>>) =>
      /\ sent[i] = <<>>
      /\ updates[i] = {}
      /\ run[i].pc \in {"emptyWrite", "catch", "done"}
      /\ run[i].pc = "emptyWrite" => writes[i] = <<>>
      /\ run[i].pc # "emptyWrite" =>
           /\ writes[i][1].w = [pushStatus |-> "skipped",
                                pushError |-> "no audience tokens",
                                pushEventId |-> EventId]
           /\ writes[i][1].ok => (Len(writes[i]) = 1 /\ run[i].pc = "done")

C7_Witness ==
  \E i \in Invocations :
    /\ run[i].next >= 1 /\ run[i].uniqueTokens = <<>>
    /\ reads[i] = 1
    /\ run[i].pc = "done"
    /\ feed.pushError = "no audience tokens"

\* C8: every outcome write carries pushStatus = sent exactly when at least
\* one token was delivered successfully and failed otherwise, together with
\* pushSentAt, pushEventId, the two counts and the audience size.
C8_TerminalStatus ==
  \A i \in Invocations : \A k \in OutcomeWrites(i) :
    LET w == writes[i][k].w
    IN /\ w.pushStatus = IF Succeeded(i) # {} THEN "sent" ELSE "failed"
       /\ w.pushSentAt # Absent
       /\ w.pushEventId = EventId
       /\ w.pushSuccessCount = Cardinality(Succeeded(i))
       /\ w.pushFailureCount = Cardinality((Delivered(i) \ Succeeded(i)) \cup Lost(i))
       /\ w.pushAudienceTokens = Cardinality(Range(run[i].uniqueTokens))

C8_Witness ==
  \E i \in Invocations : \E k \in OutcomeWrites(i) :
    /\ writes[i][k].ok
    /\ writes[i][k].w.pushStatus = "sent"
    /\ writes[i][k].w.pushFailureCount = 2

\* C9: in every outcome write pushSuccessCount + pushFailureCount equals
\* pushAudienceTokens, for any mix of answered and throwing batches.
C9_OutcomeConsistency ==
  \A i \in Invocations : \A k \in OutcomeWrites(i) :
    LET w == writes[i][k].w
    IN w.pushSuccessCount + w.pushFailureCount = w.pushAudienceTokens

C9_Witness ==
  \E i \in Invocations : \E k \in OutcomeWrites(i) :
    /\ writes[i][k].ok
    /\ Len(sent[i]) = 2
    /\ sent[i][1].threw
    /\ Len(sent[i][1].tokens) = 2
    /\ ~sent[i][2].threw
    /\ snapshot.tokens = <<"a", "d", "a">>
    /\ \E u \in Users : "a" \in Range(users[u].fcmTokens)

\* C10: across all delivery calls of one invocation no token is submitted
\* more than once.
C10_NoDuplicateToken ==
  \A i \in Invocations : \A p, q \in Submitted(i) :
    sent[i][p[1]].tokens[p[2]] = sent[i][q[1]].tokens[q[2]] => p = q

C10_Witness ==
  \E i \in Invocations :
    /\ run[i].pc = "done"
    /\ snapshot.tokens = <<"a", "d", "a">>
    /\ \A u \in {"u2", "u3"} :
         /\ "a" \in Range(users[u].fcmTokens)
         /\ users[u].fcmToken = "a"
         /\ "a" \in Range(users[u].tokens)
    /\ \E p \in Submitted(i) : sent[i][p[1]].tokens[p[2]] = "a"

\* The non-empty tokens a recipient record holds in any of its token fields.
FieldTokens(data) ==
  ((IF IsArray(data.fcmTokens) THEN Range(data.fcmTokens) ELSE {})
     \cup {data.fcmToken}
     \cup (IF IsArray(data.tokens) THEN Range(data.tokens) ELSE {})) \ {""}

\* The tokens recipient u held when invocation i scanned the directory.
ScannedTokens(i, u) ==
  IF u \in DOMAIN run[i].usersSnapshot THEN FieldTokens(run[i].usersSnapshot[u]) ELSE {}

\* The non-empty explicit tokens of the feed event (tokens, else token).
ExplicitTokens ==
  (IF IsArray(snapshot.tokens) THEN Range(snapshot.tokens) ELSE {snapshot.token}) \ {""}

SubmittedTokens(i) == {sent[i][p[1]].tokens[p[2]] : p \in Submitted(i)}

\* The batch loop of invocation i is over.
Dispatched(i) ==
  /\ run[i].next >= 1
  /\ run[i].uniqueTokens # <<>>
  /\ run[i].pc \in {"prune", "refresh", "outcomeWrite", "catch", "done"}

\* C11: a token registered only on the author's own record and not given
\* explicitly on the feed event is never submitted: every submitted token is
\* explicit or was held by a scanned record other than the author's; and
\* every explicit token is submitted, whoever owns it.
C11_AudienceExclusion ==
  \A i \in Invocations :
    /\ \A t \in SubmittedTokens(i) :
         \/ t \in ExplicitTokens
         \/ \E u \in Users \ {snapshot.userId} : t \in ScannedTokens(i, u)
    /\ Dispatched(i) => ExplicitTokens \subseteq SubmittedTokens(i)

C11_Witness ==
  \E i \in Invocations :
    /\ Dispatched(i)
    /\ snapshot.userId = "u1"
    /\ ScannedTokens(i, "u1") = {"a", "e"}
    /\ "a" \in ExplicitTokens
    /\ "a" \in SubmittedTokens(i)
    /\ "b" \in SubmittedTokens(i)
    /\ "e" \notin SubmittedTokens(i)

RECURSIVE Concat(_)
Concat(seqs) == IF seqs = <<>> THEN <<>> ELSE Head(seqs) \o Concat(Tail(seqs))

CeilDiv(n, d) == (n + d - 1) \div d

\* The batch sizes the chunking gives 1001 tokens under the limit of 500.
Sizes1001 ==
  LET chunks == ChunksOf([k \in 1 .. 1001 |-> k], MulticastLimit)
  IN [k \in DOMAIN chunks |-> Len(chunks[k])]

\* C12: the delivery calls of a run carry contiguous slices of the
\* deduplicated token sequence, in order: the batches sent so far concatenate
\* to a prefix of it, every batch but the last of the run has exactly the
\* limit's number of tokens and none has more, and once the loop is over there
\* are ceil(n / limit) of them concatenating to the whole sequence; under the
\* limit of 500, 1001 tokens give batches of 500, 500 and 1.
C12_Chunking ==
  /\ \A i \in Invocations :
       LET batches == [k \in DOMAIN sent[i] |-> sent[i][k].tokens]
           n == Len(run[i].uniqueTokens)
           all == Concat(batches)
       IN /\ Len(all) <= n
          /\ all = SubSeq(run[i].uniqueTokens, 1, Len(all))
          /\ \A k \in DOMAIN batches :
               /\ Len(batches[k]) >= 1
               /\ Len(batches[k]) <= chunkSize
               /\ (k < Len(batches) \/ Len(all) < n) => Len(batches[k]) = chunkSize
          /\ Dispatched(i) =>
               /\ Len(batches) = CeilDiv(n, chunkSize)
               /\ all = run[i].uniqueTokens
  /\ Sizes1001 = <<500, 500, 1>>

C12_Witness ==
  \E i \in Invocations :
    /\ Dispatched(i)
    /\ Len(run[i].uniqueTokens) = 3
    /\ Len(sent[i]) = 2
    /\ Len(sent[i][1].tokens) = 2
    /\ Len(sent[i][2].tokens) = 1

\* The token and the provider's result of a delivered (batch, index) pair.
TokenAt(i, p) == sent[i][p[1]].tokens[p[2]]

ResultAt(i, p) == sent[i][p[1]].responses[p[2]]

\* C13: invalidTokens holds exactly the tokens whose result was not
\* registered, invalid registration or third-party auth error; refreshUsers
\* holds exactly the registry owners of the tokens whose result was
\* third-party auth error; successes and other codes add to neither.
C13_Classification ==
  \A i \in Invocations :
    /\ run[i].invalidTokens =
         {TokenAt(i, p) : p \in {q \in Delivered(i) :
            ResultAt(i, q) \in {NotRegistered, InvalidRegistration, ThirdPartyAuth}}}
    /\ run[i].refreshUsers =
         UNION {run[i].tokenOwners[TokenAt(i, p)] :
                  p \in {q \in Delivered(i) : ResultAt(i, q) = ThirdPartyAuth}}

C13_Witness ==
  \E i \in Invocations :
    /\ Dispatched(i)
    /\ run[i].tokenOwners["a"] = {"u2"}
    /\ run[i].tokenOwners["b"] = {"u2", "u3"}
    /\ \E p, q, o \in Delivered(i) :
         /\ TokenAt(i, p) = "a" /\ ResultAt(i, p) = ThirdPartyAuth
         /\ TokenAt(i, q) = "b" /\ ResultAt(i, q) = NotRegistered
         /\ TokenAt(i, o) = "d" /\ ResultAt(i, o) = "messaging/internal-error"
    /\ run[i].invalidTokens = {"a", "b"}
    /\ run[i].refreshUsers = {"u2"}

\* The pruning step of invocation i is over.
Pruned(i) == Dispatched(i) /\ run[i].pc # "prune"

\* C14: once a run has finished its pruning step, with every pruning update
\* having succeeded, no token field (fcmTokens, fcmToken, tokens) of a
\* recipient record the run registered as an owner still holds a token the
\* provider reported invalid in that run.
C14_PrunedTokens ==
  \A i \in Invocations :
    (Pruned(i) /\ \A upd \in updates[i] : upd.kind = "prune" => upd.ok) =>
      \A t \in run[i].invalidTokens : \A u \in run[i].tokenOwners[t] :
        t \notin FieldTokens(users[u])

LostTokens(i) == {TokenAt(i, p) : p \in Lost(i)}

\* C15: the tokens of a batch whose delivery call threw all count as
\* failures and none as a success, none enters invalidTokens and none of
\* their owners enters refreshUsers on their account, and the loop goes on:
\* whatever batches threw or partly failed, the next batch is sent until
\* every batch has been.
C15_BatchFailure ==
  \A i \in Invocations :
    /\ run[i].totalSuccess = Cardinality(Succeeded(i))
    /\ run[i].totalFailure = Cardinality(Lost(i)) + Cardinality(Delivered(i) \ Succeeded(i))
    /\ run[i].invalidTokens \cap LostTokens(i) = {}
    /\ (\A k \in DOMAIN sent[i] : sent[i][k].threw) =>
         (run[i].invalidTokens = {} /\ run[i].refreshUsers = {})
    /\ run[i].pc = "send" =>
         (run[i].next = Len(sent[i]) + 1
            /\ run[i].next <= CeilDiv(Len(run[i].uniqueTokens), chunkSize))
    /\ Dispatched(i) => Len(sent[i]) = CeilDiv(Len(run[i].uniqueTokens), chunkSize)

C15_Witness ==
  \E i \in Invocations :
    /\ Dispatched(i)
    /\ Len(sent[i]) = 2
    /\ sent[i][1].threw
    /\ Len(sent[i][1].tokens) = 2
    /\ ~sent[i][2].threw
    /\ sent[i][2].responses[1] = ThirdPartyAuth
    /\ run[i].totalFailure = 3
    /\ run[i].invalidTokens = {sent[i][2].tokens[1]}

\* The histogram key of an unsuccessful per-token result.
ResultKey(code) == IF code = "" THEN "unknown" ELSE code

\* The histogram key of a batch error: its code, else its message.
ErrorKey(error) ==
  IF error.code # "" THEN error.code
  ELSE IF error.message # "" THEN error.message
  ELSE "chunk_error"

\* Per-token failures invocation i was answered with under key c.
AnsweredWith(i, c) ==
  {p \in Delivered(i) \ Succeeded(i) : ResultKey(ResultAt(i, p)) = c}

\* Batches of invocation i whose delivery call threw an error of key c.
ThrownWith(i, c) ==
  {k \in DOMAIN sent[i] : sent[i][k].threw /\ ErrorKey(sent[i][k].error) = c}

\* Tokens of those batches.
LostWith(i, c) == {p \in Lost(i) : p[1] \in ThrownWith(i, c)}

C17_ExplicitNeverPruned ==
  \A i \in Invocations : \A upd \in updates[i] :
    /\ upd.kind = "prune" => upd.toks \cap ExplicitTokens = {}
    /\ upd.kind = "refresh" =>
         \E p \in Delivered(i) :
           /\ ResultAt(i, p) = ThirdPartyAuth
           /\ TokenAt(i, p) \in ScannedTokens(i, upd.ref) \ ExplicitTokens

\* C17 amended: a recipient record is updated on account of a token only if
\* the scan found that token on that record, and the record is not the
\* author's: an explicit token that no scanned record other than the author's
\* holds has no registry owner and causes no update, whatever its failure
\* code; an explicit token that such a record also holds is pruned from, and
\* refresh-marked on, that record like any directory token.
C17_OnlyScannedOwners ==
  \A i \in Invocations :
    /\ \A upd \in updates[i] :
         /\ upd.ref # snapshot.userId
         /\ upd.kind = "prune" =>
              /\ upd.toks # {}
              /\ upd.toks \subseteq ScannedTokens(i, upd.ref) \cap run[i].invalidTokens
         /\ upd.kind = "refresh" =>
              \E p \in Delivered(i) :
                /\ ResultAt(i, p) = ThirdPartyAuth
                /\ TokenAt(i, p) \in ScannedTokens(i, upd.ref)
    /\ \A t \in ExplicitTokens :
         (\A u \in Users \ {snapshot.userId} : t \notin ScannedTokens(i, u)) =>
           run[i].tokenOwners[t] = {}

C17_Witness ==
  \E i \in Invocations :
    /\ run[i].pc = "done"
    /\ ExplicitTokens = {"a", "d"}
    /\ \E p, q \in Delivered(i) :
         /\ TokenAt(i, p) = "d" /\ ResultAt(i, p) = ThirdPartyAuth
         /\ TokenAt(i, q) = "a" /\ ResultAt(i, q) = ThirdPartyAuth
    /\ "a" \in ScannedTokens(i, "u1")
    /\ run[i].invalidTokens = {"a", "d"}
    /\ updates[i] = {[ref |-> "u2", kind |-> "prune", toks |-> {"a"}, ok |-> TRUE],
                     [ref |-> "u2", kind |-> "refresh", toks |-> {}, ok |-> TRUE]}

\* The cleanup of invocation i is over: every pruning and refresh update settled.
CleanedUp(i) == Pruned(i) /\ run[i].pc # "refresh"

FailedUpdates(i) == {upd \in updates[i] : ~upd.ok}

\* C18: when cleanup updates fail, every pruning update (one per owner of an
\* invalid token) and every refresh update (one per refresh owner) is still
\* issued, the catch path is entered only for a rejected feed write, and the
\* outcome write is attempted after the cleanup with the status and counts
\* the provider's results alone determine.
C18_CleanupFailuresIgnored ==
  \A i \in Invocations :
    FailedUpdates(i) # {} =>
      /\ run[i].pc \in {"prune", "refresh", "outcomeWrite", "catch", "done"}
      /\ CleanedUp(i) =>
           /\ {upd.ref : upd \in {x \in updates[i] : x.kind = "prune"}} =
                {u \in Users : \E t \in run[i].invalidTokens : u \in run[i].tokenOwners[t]}
           /\ {upd.ref : upd \in {x \in updates[i] : x.kind = "refresh"}} = run[i].refreshUsers
      /\ run[i].pc = "outcomeWrite" => writes[i] = <<>>
      /\ run[i].pc \in {"catch", "done"} =>
           /\ OutcomeWrites(i) = {1}
           /\ writes[i][1].w.pushStatus = IF Succeeded(i) # {} THEN "sent" ELSE "failed"
           /\ writes[i][1].w.pushSuccessCount = Cardinality(Succeeded(i))
           /\ writes[i][1].w.pushFailureCount =
                Cardinality(Lost(i)) + Cardinality(Delivered(i) \ Succeeded(i))
           /\ run[i].pc = "catch" => ~writes[i][1].ok

C18_Witness ==
  \E i \in Invocations :
    /\ run[i].pc = "done"
    /\ Cardinality(FailedUpdates(i)) = 2
    /\ \E upd \in updates[i] : upd.kind = "prune" /\ upd.ok
    /\ \E upd \in updates[i] : upd.kind = "refresh" /\ upd.ok
    /\ \E upd \in FailedUpdates(i) : upd.kind = "prune"
    /\ \E upd \in FailedUpdates(i) : upd.kind = "refresh"
    /\ writes[i][1].ok
    /\ writes[i][1].w.pushStatus = "sent"

\* The invocation passes the idempotency and the missing-identity gates.
PassesGates ==
  /\ snapshot.exists
  /\ ~SentAtSet
  /\ snapshot.userId # "" \/ ExplicitTokens # {}

\* C19 as stated: every invocation that passed both gates and has resolved
\* its audience made exactly one scan of the recipient directory, author or
\* not.
C19_AlwaysOneScan ==
  \A i \in Invocations :
    (PassesGates /\ run[i].next >= 1) => reads[i] = 1

\* C19 amended: an invocation that passes both gates scans the directory
\* exactly once when the feed event has an author and not at all when it has
\* none (its audience is then the explicit tokens alone); no invocation scans
\* twice, and a gated invocation does not scan.
C19_OneScanWithAuthor ==
  \A i \in Invocations :
    /\ reads[i] =
         IF PassesGates /\ snapshot.userId # "" /\ run[i].pc \notin {"idle", "get"}
         THEN 1 ELSE 0
    /\ (PassesGates /\ snapshot.userId = "" /\ run[i].pc # "idle") =>
         /\ run[i].usersSnapshot = <<>>
         /\ Range(run[i].uniqueTokens) = ExplicitTokens

C19_Witness ==
  \E i \in Invocations :
    /\ PassesGates
    /\ snapshot.userId = ""
    /\ run[i].pc = "done"
    /\ sent[i] # <<>>
    /\ reads[i] = 0
    /\ \E u \in Users : FieldTokens(users[u]) # {}

\* The outcome fields of the feed document as it was created.
CreatedFeed == [NoFeedOutcome EXCEPT !.pushSentAt = snapshot.pushSentAt]

\* C20: once every delivery of an event that passed the gate has finished,
\* the persisted outcome fields of the feed record are the fields of one
\* single write of one of the invocations (or untouched when no write
\* landed), never a merge of several writes.
C20_SingleTerminalWrite ==
  (snapshot.exists /\ ~SentAtSet /\ \A i \in 1 .. deliveries : Finished(i)) =>
    \/ feed = CreatedFeed /\ \A i \in Invocations : OkWrites(i) = {}
    \/ \E i \in Invocations : \E k \in OkWrites(i) :
         feed = Merge(CreatedFeed, writes[i][k].w)

\* The tokens the provider answered invocation i with one of the codes.
FailedWith(i, codes) ==
  {TokenAt(i, p) : p \in {q \in Delivered(i) : ResultAt(i, q) \in codes}}

InvalidatingCodes == {NotRegistered, InvalidRegistration, ThirdPartyAuth}

\* The tokens the provider invalidated in invocation i that the scan found
\* on recipient u.
InvalidatedOn(i, u) == FailedWith(i, InvalidatingCodes) \cap ScannedTokens(i, u)

\* A token field with the elements toks taken out and nothing else done to
\* it: a field that is no array stays what it was.
ElementsRemoved(field, toks) == SelectSeq(field, LAMBDA t : t \notin toks)

\* A token field after an array-element removal as the directory applies it:
\* a field that is no array is left as the empty array.
RemovedOrEmptied(field, toks) ==
  IF IsArray(field) THEN ElementsRemoved(field, toks) ELSE <<>>

\* Recipient u's record is changed by the step, by invocation i, and the step
\* keeps the frame every part of the claim shares: u is not the author, the
\* scan found on u a token the provider failed, no token is added to u, and
\* fcmToken is kept.
ChangedWithinFrame(i, u) ==
  /\ run[i].pc \in {"prune", "refresh"}
  /\ u # snapshot.userId
  /\ \E p \in Delivered(i) \ Succeeded(i) : TokenAt(i, p) \in ScannedTokens(i, u)
  /\ FieldTokens(users'[u]) \subseteq FieldTokens(users[u])
  /\ users'[u].fcmToken = users[u].fcmToken

\* The step sets the refresh flag and its time on u and nothing else, u being
\* an owner of a token that failed with third-party auth error.
RefreshMarked(i, u) ==
  /\ FailedWith(i, {ThirdPartyAuth}) \cap ScannedTokens(i, u) # {}
  /\ users'[u] = [users[u] EXCEPT !.needsTokenRefresh = TRUE,
                                  !.needsTokenRefreshAt = "ts"]

\* C21 as stated: every change a step makes to a recipient record is the
\* removal of the tokens the provider invalidated from fcmTokens and tokens,
\* with both fields otherwise as they were, or the setting of
\* needsTokenRefresh and needsTokenRefreshAt on an owner of a token that
\* failed with third-party auth error; no token is added, no other field
\* changes, and the author's record and the records owning no failed token
\* are not changed.
C21_OnlyTokenRemovals ==
  [][\A u \in Users : users'[u] # users[u] =>
       \E i \in Invocations :
         /\ ChangedWithinFrame(i, u)
         /\ \/ RefreshMarked(i, u)
            \/ users'[u] =
                 [users[u] EXCEPT
                    !.fcmTokens = ElementsRemoved(@, InvalidatedOn(i, u)),
                    !.tokens = ElementsRemoved(@, InvalidatedOn(i, u))]]_vars

\* C21 amended: as stated, except that the removal leaves a fcmTokens or
\* tokens field that was missing or no array as the empty array: a pruned
\* record of the legacy shape gains both fields, empty, and keeps fcmToken.
C21_TargetedUpdates ==
  [][\A u \in Users : users'[u] # users[u] =>
       \E i \in Invocations :
         /\ ChangedWithinFrame(i, u)
         /\ \/ RefreshMarked(i, u)
            \/ users'[u] =
                 [users[u] EXCEPT
                    !.fcmTokens = RemovedOrEmptied(@, InvalidatedOn(i, u)),
                    !.tokens = RemovedOrEmptied(@, InvalidatedOn(i, u))]]_vars

\* A run that pruned the legacy record u2 and the array record u3 and marked
\* u3 for refresh, the author's record holding a token as well.
C21_Witness ==
  \E i \in Invocations :
    /\ run[i].pc = "done"
    /\ run[i].usersSnapshot # <<>>
    /\ run[i].usersSnapshot["u2"] = LegacyUser
    /\ FieldTokens(run[i].usersSnapshot["u1"]) # {}
    /\ updates[i] = {[ref |-> "u2", kind |-> "prune", toks |-> {"b"}, ok |-> TRUE],
                     [ref |-> "u3", kind |-> "prune", toks |-> {"a", "b"}, ok |-> TRUE],
                     [ref |-> "u3", kind |-> "refresh", toks |-> {}, ok |-> TRUE]}
    /\ users["u1"] = run[i].usersSnapshot["u1"]
    /\ users["u2"] = [LegacyUser EXCEPT !.fcmTokens = <<>>, !.tokens = <<>>]
    /\ users["u3"].fcmTokens = <<>>
    /\ users["u3"].fcmToken = "a"
    /\ users["u3"].needsTokenRefresh

\* The owner or activity a territory snapshot names: none when the snapshot
\* does not exist or the field is missing or empty.
Named(snap, field) ==
  IF snap.exists /\ snap[field] \notin {Absent, ""} THEN snap[field] ELSE Null

\* Write event e left the territory in existence and changed whom it names as
\* owner or as activity (on a create: it names one).
OwnershipChanged(e) ==
  /\ written[e].after.exists
  /\ \/ Named(written[e].before, "userId") # Named(written[e].after, "userId")
     \/ Named(written[e].before, "activityId") # Named(written[e].after, "activityId")

\* The history entries that carry the id of write event e.
EntriesOf(e) == {d \in owners : d.fields.eventId = e}

\* The deliveries of write event e whose handler returned.
Returned(e) == {i \in Invocations : tracker[e][i] = "done"}

\* C22: the history holds an entry for a write event, keyed by the event's
\* id, if and only if the territory existed after the write, its owner or its
\* activity changed (on a create: is set; a missing or empty value counts as
\* none) and a delivery of the event has returned; however many deliveries
\* of the event were made, there is exactly one such entry; and a delete or a
\* write changing neither makes no write to the history.
C22_OwnerHistory ==
  /\ \A d \in owners : d.id = d.fields.eventId /\ d.id \in DOMAIN written
  /\ \A e \in DOMAIN written :
       /\ EntriesOf(e) # {} <=> (OwnershipChanged(e) /\ Returned(e) # {})
       /\ Cardinality(EntriesOf(e)) <= 1
       /\ OwnershipChanged(e) => sets[e] = Cardinality({i \in Invocations : tracker[e][i] # "idle"})
       /\ ~OwnershipChanged(e) => sets[e] = 0
       /\ \A d \in EntriesOf(e) :
            /\ d.fields.previousUserId = Named(written[e].before, "userId")
            /\ d.fields.newUserId = Named(written[e].after, "userId")
            /\ d.fields.previousActivityId = Named(written[e].before, "activityId")
            /\ d.fields.newActivityId = Named(written[e].after, "activityId")

\* A create naming an owner, delivered MaxDeliveries times, then a delete
\* delivered as often: one entry, for the create.
C22_Witness ==
  /\ Len(written) = MaxEvents
  /\ ~written[1].before.exists
  /\ written[1].after.userId = "u1"
  /\ ~written[MaxEvents].after.exists
  /\ \A e \in {1, MaxEvents} : Returned(e) = Invocations
  /\ Cardinality(owners) = 1
  /\ \E d \in EntriesOf(1) : d.fields.changeType = "create" /\ d.fields.newUserId = "u1"
  /\ EntriesOf(MaxEvents) = {}

====
